---- MODULE Spec2Model ----
(***************************************************************************)
(* Model of dipole::initialize (VAMPIRE dipole module) executed by a set   *)
(* of MPI worker processes.  Every worker runs the same caller program     *)
(* (SPMD); the handler is cut at its blocking collective operations.       *)
(***************************************************************************)
EXTENDS Integers, Sequences, FiniteSets, TLC

\* ------------------------------------------------------------------ bounds
NumWorkers == 2      \* worker processes (MPI ranks)
NumCells   == 2      \* macrocells of the geometry
MaxAtoms   == 2      \* largest atom count of one cell
MaxScript  == 3      \* operations of the caller program

Workers == 0 .. (NumWorkers - 1)
CellIds == 0 .. (NumCells - 1)
Comp    == {"xx", "xy", "xz", "yy", "yz", "zz"}
Diag    == {"xx", "yy", "zz"}

\* order in which the six totals are reduced, after the atom count
ReduceOrder == <<"nmag", "xx", "xy", "xz", "yy", "yz", "zz">>

\* ------------------------------------------------- exact rational numbers
\* a double is modelled by an exact rational [n, d], d > 0; d = 0 stands for
\* a non-finite result (inf or NaN) as produced by a division by zero
RECURSIVE GCD(_, _)
GCD(a, b) == IF b = 0 THEN a ELSE GCD(b, a % b)

Abs(x) == IF x < 0 THEN -x ELSE x

NonFinite == [n |-> 0, d |-> 0]

RNorm(n, d) ==
  IF d = 0 THEN NonFinite
  ELSE LET s == IF d < 0 THEN -1 ELSE 1
           g == GCD(Abs(n), Abs(d))
       IN  [n |-> (s * n) \div g, d |-> (s * d) \div g]

RInt(k) == [n |-> k, d |-> 1]

RAdd(a, b) == IF a.d = 0 \/ b.d = 0 THEN NonFinite
              ELSE RNorm(a.n * b.d + b.n * a.d, a.d * b.d)

RSub(a, b) == IF a.d = 0 \/ b.d = 0 THEN NonFinite
              ELSE RNorm(a.n * b.d - b.n * a.d, a.d * b.d)

RMul(a, b) == IF a.d = 0 \/ b.d = 0 THEN NonFinite
              ELSE RNorm(a.n * b.n, a.d * b.d)

RDiv(a, b) == IF a.d = 0 \/ b.d = 0 \/ b.n = 0 THEN NonFinite
              ELSE RNorm(a.n * b.d, a.d * b.n)

\* numbers of the form m1/pi + z + p1*pi with rational coefficients
PiNum(r)  == [m1 |-> RInt(0), z |-> r, p1 |-> RInt(0)]
FourPi    == [m1 |-> RInt(0), z |-> RInt(0), p1 |-> RInt(4)]
PiScale(p, r) == [m1 |-> RMul(p.m1, r), z |-> RMul(p.z, r), p1 |-> RMul(p.p1, r)]
PiSub(p, q)   == [m1 |-> RSub(p.m1, q.m1), z |-> RSub(p.z, q.z), p1 |-> RSub(p.p1, q.p1)]
\* p / (c*pi) for a p without a 1/pi term
PiDivPi(p, c) == [m1 |-> RDiv(p.z, c), z |-> RDiv(p.p1, c), p1 |-> RInt(0)]

\* --------------------------------------------------------------- geometry
\* a run's geometry: per-cell atom counts, the worker owning each cell and a
\* seed selecting volumes, positions and the tensor contents
Seeds == {0, 1}

\* how the cells are dealt to the workers: all to the first worker, all to the
\* last worker, or in turn
Layouts == {"first", "last", "round"}

Owner(layout) ==
  [j \in CellIds |->
     CASE layout = "first" -> 0
       [] layout = "last"  -> NumWorkers - 1
       [] layout = "round" -> j % NumWorkers]

\* atom counts: the same in every cell (seed 0) or rising from cell to cell and
\* wrapping to zero (seed 1), starting from an empty or from a full cell
Geometries ==
  {[natoms |-> [j \in CellIds |-> (first + j * seed) % (MaxAtoms + 1)],
    owner  |-> Owner(layout),
    seed   |-> seed] :
     first \in {0, MaxAtoms}, layout \in Layouts, seed \in Seeds}

\* geometry passed by a call that is not the worker's first call
AltGeometry(g) ==
  [g EXCEPT !.natoms = [j \in CellIds |-> (g.natoms[j] + 1) % (MaxAtoms + 1)],
            !.seed   = 1 - g.seed]

RECURSIVE CellsFrom(_, _, _)
CellsFrom(g, w, j) ==
  IF j >= NumCells THEN << >>
  ELSE (IF g.owner[j] = w THEN <<j>> ELSE << >>) \o CellsFrom(g, w, j + 1)

\* the cells that hold atoms of worker w, ascending
LocalCells(g, w) == CellsFrom(g, w, 0)

RECURSIVE AtomCells(_, _)
AtomCells(g, j) ==
  IF j >= NumCells THEN << >>
  ELSE [k \in 1 .. g.natoms[j] |-> j] \o AtomCells(g, j + 1)

\* the arguments of dipole::initialize built from a geometry, for worker w
CallArgs(g, w, mom) ==
  [cells_num_cells         |-> NumCells,
   cells_num_local_cells   |-> Len(LocalCells(g, w)),
   cells_local_cell_array  |-> LocalCells(g, w),
   cells_num_atoms_in_cell |-> g.natoms,
   cells_volume_array      |-> [j \in CellIds |-> 1 + ((j + g.seed) % 2)],
   cells_pos_and_mom_array |-> [j \in CellIds |->
                                 [pos |-> 3 * j + g.seed, mom |-> mom + j]],
   atom_cell_id_array      |-> AtomCells(g, 0),
   num_atoms               |-> Len(AtomCells(g, 0)),
   seed                    |-> g.seed]

\* ------------------------------------------------------------------ state
VARIABLES
  script,                   \* the caller program run by every worker
  geometry,                 \* the geometry of the run
  pos,                      \* per worker: next operation of the script
  pc,                       \* per worker: position inside initialize
  ncalls,                   \* per worker: calls of initialize made so far
  activated,                \* dipole::activated
  sim_time,                 \* sim::time
  initialised,              \* dipole::internal::initialised
  rij,                      \* dipole::internal::rij_intra_*, rij_inter_*
  internal,                 \* dipole::internal copies of the arguments
  cells_num_cells,          \* cells::num_cells
  cells_num_atoms_in_cell,  \* cells::num_atoms_in_cell
  cell_id_array,            \* cells::cell_id_array
  coll,                     \* per worker: collectives issued so far
  demag,                    \* per worker: locals of the diagnostic block
  trace,                    \* per worker: operations and log lines so far
  estimate,                 \* per worker: the memory figure written to the log (MB)
  moment,                   \* per worker: the cell moments, updated each timestep
  vmpi,                     \* state of vmpi::finalise on every rank
  stat,                     \* a stats::standard_deviation_statistic_t object
  samples                   \* the calls made on it and the vectors passed to update

vars == <<script, geometry, pos, pc, ncalls, activated, sim_time, initialised,
          rij, internal, cells_num_cells, cells_num_atoms_in_cell,
          cell_id_array, coll, demag, trace, estimate, moment, vmpi,
          stat, samples>>

Ops == {"initialize", "advance", "toggle"}

\* the caller programs: up to MaxScript operations, initialize among them
Scripts ==
  {s \in UNION {[1 .. n -> Ops] : n \in 1 .. MaxScript} :
     \E k \in DOMAIN s : s[k] = "initialize"}

Unallocated == [allocated |-> FALSE]
NoCopy      == [set |-> FALSE]
NoDemag     == [run |-> FALSE]
NoEstimate  == [written |-> FALSE]
NoFinalise  == [called |-> FALSE]
NoStatistic == [declared |-> FALSE]
NoSamples   == [ops |-> 0]

\* the dipole module before the first call, the cells holding the moments m
InitDipole(m) ==
  /\ script \in Scripts
  /\ geometry \in Geometries
  /\ pos = [w \in Workers |-> 1]
  /\ pc = [w \in Workers |-> "idle"]
  /\ ncalls = [w \in Workers |-> 0]
  /\ activated = [w \in Workers |-> TRUE]
  /\ sim_time = [w \in Workers |-> 0]
  /\ initialised = [w \in Workers |-> FALSE]
  /\ rij = [w \in Workers |-> Unallocated]
  /\ internal = [w \in Workers |-> NoCopy]
  /\ cells_num_cells = [w \in Workers |-> NumCells]
  /\ cells_num_atoms_in_cell = [w \in Workers |-> geometry.natoms]
  /\ cell_id_array = [w \in Workers |-> LocalCells(geometry, w)]
  /\ coll = [w \in Workers |-> << >>]
  /\ demag = [w \in Workers |-> NoDemag]
  /\ trace = [w \in Workers |-> << >>]
  /\ estimate = [w \in Workers |-> NoEstimate]
  /\ moment = [w \in Workers |-> m]

\* the state before the first call; vmpi::finalise has not been called
InitState(m) ==
  /\ InitDipole(m)
  /\ vmpi = NoFinalise
  /\ stat = NoStatistic
  /\ samples = NoSamples

Init == InitState(0)

\* the per-cell moments a run can start from
Moments == {0, 1}

InitMoments == \E m \in Moments : InitState(m)

\* ------------------------------------------------ collaborators of initialize
Kinds == {"intra", "inter"}

CompIdx(c) == CASE c = "xx" -> 1 [] c = "xy" -> 2 [] c = "xz" -> 3
                [] c = "yy" -> 4 [] c = "yz" -> 5 [] c = "zz" -> 6

\* dipole::internal::allocate_memory: the twelve arrays, num_local_cells rows
\* of num_cells entries each, zero filled
allocate_memory(num_local_cells, num_cells) ==
  [allocated |-> TRUE,
   intra |-> [c \in Comp |-> [lc \in 0 .. (num_local_cells - 1) |->
                                [j \in 0 .. (num_cells - 1) |-> 0]]],
   inter |-> [c \in Comp |-> [lc \in 0 .. (num_local_cells - 1) |->
                                [j \in 0 .. (num_cells - 1) |-> 0]]]]

\* the entry the builder computes for a pair of cells; the contents depend on
\* the geometry only and are otherwise arbitrary
TensorValue(kind, c, i, j, seed) ==
  IF kind = "intra"
  THEN CompIdx(c) * (IF i = j THEN 2 ELSE seed)
  ELSE (0 - (CompIdx(c) + 1)) * (IF i = j THEN seed ELSE 1)

\* dipole::internal::initialize_tensor_solver: fills every entry of the storage
initialize_tensor_solver(store, args) ==
  [allocated |-> TRUE,
   intra |-> [c \in Comp |-> [lc \in DOMAIN store.intra[c] |->
               [j \in DOMAIN store.intra[c][lc] |->
                  TensorValue("intra", c, args.cells_local_cell_array[lc + 1], j, args.seed)]]],
   inter |-> [c \in Comp |-> [lc \in DOMAIN store.inter[c] |->
               [j \in DOMAIN store.inter[c][lc] |->
                  TensorValue("inter", c, args.cells_local_cell_array[lc + 1], j, args.seed)]]]]

\* dipole::calculate_field: evaluates the field only when the module is
\* enabled and initialised, otherwise it does nothing
calculate_field(act, init) ==
  IF act /\ init THEN <<"calculate_field">> ELSE << >>

\* a blocking collective returns on worker w once every worker has issued its
\* matching collective (same position in program order, same kind)
CollectiveComplete(w) ==
  LET k == Len(coll[w])
  IN  k = 0 \/ \A v \in Workers :
                  Len(coll[v]) >= k /\ coll[v][k].kind = coll[w][k].kind

RECURSIVE SumContributions(_, _)
SumContributions(k, v) ==
  IF v >= NumWorkers THEN RInt(0)
  ELSE RAdd(coll[v][k].val, SumContributions(k, v + 1))

AllReduceLocalOnly(w) == coll[w][Len(coll[w])].val

\* MPI_Allreduce(MPI_SUM): the sum of the contributions of all workers
AllReduceSum(w) == SumContributions(Len(coll[w]), 0)

Barrier == [kind |-> "barrier", val |-> RInt(0)]

\* ------------------------------------------------------ dipole::initialize
AtCall(w, op) ==
  /\ pc[w] = "idle"
  /\ pos[w] <= Len(script)
  /\ script[pos[w]] = op

Return(w) ==
  /\ pc' = [pc EXCEPT ![w] = "idle"]
  /\ pos' = [pos EXCEPT ![w] = pos[w] + 1]

\* the geometry the caller passes on this call
ArgGeometry(w) == IF ncalls[w] = 0 THEN geometry ELSE AltGeometry(geometry)

FeatureDisabledIgnored(w) == FALSE

\* line 67
FeatureDisabled(w) == ~activated[w]

PriorInitialisationIgnored(w) == FALSE

\* line 70
PriorInitialisation(w) == initialised[w]

BuildEventsSolverFirst ==
  <<"cout:Initialising", "zlog:Initialising", "initialize_tensor_solver",
    "zlog:requires_MB", "cout:requires_MB", "zlog:local_cells",
    "zlog:total_cells", "zlog:Precalculating", "cout:Precalculating",
    "allocate_memory", "barrier">>

\* lines 76-80 and 109-136: console and log lines, allocation and build in
\* program order
BuildEvents ==
  <<"cout:Initialising", "zlog:Initialising", "allocate_memory",
    "zlog:requires_MB", "cout:requires_MB",
    "zlog:local_cells", "zlog:total_cells",
    "zlog:Precalculating", "cout:Precalculating",
    "initialize_tensor_solver", "barrier">>

\* lines 86-96
CopyArguments(a) ==
  [set                     |-> TRUE,
   num_atoms               |-> a.num_atoms,
   atom_cell_id_array      |-> a.atom_cell_id_array,
   cells_num_cells         |-> a.cells_num_cells,
   cells_num_local_cells   |-> a.cells_num_local_cells,
   cells_local_cell_array  |-> a.cells_local_cell_array,
   cells_num_atoms_in_cell |-> a.cells_num_atoms_in_cell,
   cells_volume_array      |-> a.cells_volume_array,
   cells_pos_and_mom_array |-> a.cells_pos_and_mom_array]

BuildBarrierOmitted == << >>

\* line 142: the barrier that follows the build
BuildBarrier == <<Barrier>>

FlagSetBeforeBarrier(w) == TRUE

\* lines 109-110: the figure of the "requires ... MB of RAM" lines
MemoryEstimate(num_cells, num_local_cells) ==
  RDiv(RMul(RMul(RInt(num_cells), RInt(num_local_cells * 6)), RInt(8)),
       RInt(1000000))

\* the value of the initialised flag while the worker waits in the barrier
\* that follows the build (the flag is not assigned before line 151)
FlagBeforeBarrier(w) == initialised[w]

FlagLeftUnset(w) == initialised[w]

\* line 151
FlagAfterBarrier(w) == TRUE

\* lines 41-142: entry of initialize up to the barrier after the build
CallInitialize(w) ==
  /\ AtCall(w, "initialize")
  /\ ncalls' = [ncalls EXCEPT ![w] = ncalls[w] + 1]
  /\ UNCHANGED <<script, geometry, activated, sim_time, cell_id_array, demag,
                 moment, vmpi, stat, samples>>
  /\ IF FeatureDisabled(w)
     THEN /\ Return(w)
          /\ UNCHANGED <<initialised, rij, internal, cells_num_cells,
                         cells_num_atoms_in_cell, coll, trace, estimate>>
     ELSE IF PriorInitialisation(w)
     THEN /\ trace' = [trace EXCEPT ![w] = Append(trace[w], "zlog:Warning")]
          /\ Return(w)
          /\ UNCHANGED <<initialised, rij, internal, cells_num_cells,
                         cells_num_atoms_in_cell, coll, estimate>>
     ELSE LET a == CallArgs(ArgGeometry(w), w, moment[w])
              store == allocate_memory(a.cells_num_local_cells, a.cells_num_cells)
          IN  /\ trace' = [trace EXCEPT ![w] = trace[w] \o BuildEvents]
              /\ internal' = [internal EXCEPT ![w] = CopyArguments(a)]
              /\ estimate' = [estimate EXCEPT ![w] =
                   [written |-> TRUE,
                    MB |-> MemoryEstimate(a.cells_num_cells, a.cells_num_local_cells)]]
              /\ rij' = [rij EXCEPT ![w] = initialize_tensor_solver(store, a)]
              /\ cells_num_cells' =
                   [cells_num_cells EXCEPT ![w] = a.cells_num_cells]
              /\ cells_num_atoms_in_cell' =
                   [cells_num_atoms_in_cell EXCEPT ![w] = a.cells_num_atoms_in_cell]
              /\ initialised' = [initialised EXCEPT ![w] = FlagBeforeBarrier(w)]
              /\ coll' = [coll EXCEPT ![w] = coll[w] \o BuildBarrier]
              /\ pc' = [pc EXCEPT ![w] = "barrier1"]
              /\ UNCHANGED pos

FieldBarrierOmitted == << >>

\* line 160: the barrier after the first field evaluation
FieldBarrier == <<Barrier>>

\* lines 142-160: from the return of the first barrier to the second barrier
AfterBuildBarrier(w) ==
  /\ pc[w] = "barrier1"
  /\ CollectiveComplete(w)
  /\ initialised' = [initialised EXCEPT ![w] = FlagAfterBarrier(w)]
  /\ trace' = [trace EXCEPT ![w] =
                 trace[w] \o <<"cout:Done", "zlog:complete", "initialised=true">>
                          \o calculate_field(activated[w], initialised'[w])
                          \o <<"barrier">>]
  /\ coll' = [coll EXCEPT ![w] = coll[w] \o FieldBarrier]
  /\ pc' = [pc EXCEPT ![w] = "barrier2"]
  /\ UNCHANGED <<script, geometry, pos, ncalls, activated, sim_time, rij,
                 internal, cells_num_cells, cells_num_atoms_in_cell,
                 cell_id_array, demag, estimate, moment, vmpi, stat, samples>>

\* ------------------------------------------- demagnetizing tensor diagnostic
\* atom count of the cell behind local cell index lc (lines 180, 194)
LocalCellAtoms(w, lc) ==
  internal[w].cells_num_atoms_in_cell[cell_id_array[w][lc + 1]]

\* lines 177-182
RECURSIVE CountMagneticAtoms(_, _)
CountMagneticAtoms(w, lc) ==
  IF lc >= internal[w].cells_num_local_cells THEN 0
  ELSE LocalCellAtoms(w, lc) + CountMagneticAtoms(w, lc + 1)

LocalCellUnchecked(w, lc) == TRUE

\* line 195
LocalCellPopulated(w, lc) == LocalCellAtoms(w, lc) > 0

\* line 198
PartnerPopulated(w, j) == internal[w].cells_num_atoms_in_cell[j] > 0

\* line 201
Vatomic(w, j) ==
  RDiv(RInt(internal[w].cells_volume_array[j]),
       RInt(internal[w].cells_num_atoms_in_cell[j]))

FactorPartnerOnly(w, lc, j) ==
  RMul(Vatomic(w, j), RInt(internal[w].cells_num_atoms_in_cell[j]))

\* line 202
Factor(w, lc, j) ==
  RMul(RMul(Vatomic(w, j), RInt(internal[w].cells_num_atoms_in_cell[j])),
       RInt(LocalCellAtoms(w, lc)))

TensorTermMomentWeighted(w, c, lc, j) ==
  (rij[w].intra[c][lc][j] + rij[w].inter[c][lc][j])
    * (1 + internal[w].cells_pos_and_mom_array[j].mom)

\* the tensor term of one component (lines 204-209)
TensorTerm(w, c, lc, j) == rij[w].intra[c][lc][j] + rij[w].inter[c][lc][j]

ZeroTotals == [N |-> [c \in Comp |-> RInt(0)], pairs |-> {}, divisors |-> {}]

\* lines 198-210: body of the inner loop; pairs and divisors record which
\* pairs were added and which divisors were used
AccumulatePair(w, lc, j, acc) ==
  IF PartnerPopulated(w, j)
  THEN [N |-> [c \in Comp |->
                 RAdd(acc.N[c], RMul(Factor(w, lc, j), RInt(TensorTerm(w, c, lc, j))))],
        pairs |-> acc.pairs \cup {<<lc, j>>},
        divisors |-> acc.divisors \cup {internal[w].cells_num_atoms_in_cell[j]}]
  ELSE acc

\* line 197: j runs over the row of the tensor storage
RowSize(w, lc) == Cardinality(DOMAIN rij[w].inter["xx"][lc])

RECURSIVE InnerLoop(_, _, _, _)
InnerLoop(w, lc, j, acc) ==
  IF j >= RowSize(w, lc) THEN acc
  ELSE InnerLoop(w, lc, j + 1, AccumulatePair(w, lc, j, acc))

\* lines 193-213
RECURSIVE OuterLoop(_, _, _)
OuterLoop(w, lc, acc) ==
  IF lc >= internal[w].cells_num_local_cells THEN acc
  ELSE OuterLoop(w, lc + 1,
                 IF LocalCellPopulated(w, lc) THEN InnerLoop(w, lc, 0, acc) ELSE acc)

FirstStepOnRootOnly(w) == sim_time[w] = 0 /\ w = 0

FirstStepInverted(w) == sim_time[w] # 0

FirstStepIgnored(w) == TRUE

\* line 175
FirstStep(w) == sim_time[w] = 0

NormaliseSelfTermEverywhere(c, total, num_atoms_magnetic) ==
  PiDivPi(PiSub(PiNum(RDiv(total, RInt(num_atoms_magnetic))),
                PiScale(FourPi, RNorm(1, 3))), RInt(0 - 4))

\* lines 227-232
Normalise(c, total, num_atoms_magnetic) ==
  LET q == PiNum(RDiv(total, RInt(num_atoms_magnetic)))
  IN  IF c \in Diag
      THEN PiDivPi(PiSub(q, PiScale(FourPi, RNorm(1, 3))), RInt(0 - 4))
      ELSE PiDivPi(q, RInt(0 - 4))

\* lines 160-217: from the return of the second barrier to the first reduction
AfterFieldBarrier(w) ==
  /\ pc[w] = "barrier2"
  /\ CollectiveComplete(w)
  /\ UNCHANGED <<script, geometry, ncalls, activated, sim_time, initialised, rij,
                 internal, cells_num_cells, cells_num_atoms_in_cell, cell_id_array,
                 estimate, moment, vmpi, stat, samples>>
  /\ IF FirstStep(w)
     THEN LET acc  == OuterLoop(w, 0, ZeroTotals)
              nmag == CountMagneticAtoms(w, 0)
          IN  /\ demag' = [demag EXCEPT ![w] =
                   [run |-> TRUE, num_atoms_magnetic |-> nmag, N |-> acc.N,
                    pairs |-> acc.pairs, divisors |-> acc.divisors,
                    reduced |-> 0, tensor |-> << >>]]
              /\ trace' = [trace EXCEPT ![w] = trace[w] \o
                   <<"zlog:Time required", "zlog:Outputting", "demag_sum",
                     "allreduce:nmag">>]
              /\ coll' = [coll EXCEPT ![w] =
                   Append(coll[w], [kind |-> "allreduce_int", val |-> RInt(nmag)])]
              /\ pc' = [pc EXCEPT ![w] = "reduce"]
              /\ UNCHANGED pos
     ELSE /\ trace' = [trace EXCEPT ![w] = trace[w] \o
                   <<"zlog:Time required", "zlog:Outputting">>]
          /\ Return(w)
          /\ UNCHANGED <<coll, demag>>

\* lines 217-245: return of one reduction; issues the next one or, after the
\* last, normalises, reports and returns
AllReduce(w) ==
  /\ pc[w] = "reduce"
  /\ CollectiveComplete(w)
  /\ UNCHANGED <<script, geometry, ncalls, activated, sim_time, initialised, rij,
                 internal, cells_num_cells, cells_num_atoms_in_cell, cell_id_array,
                 estimate, moment, vmpi, stat, samples>>
  /\ LET k   == demag[w].reduced + 1
         sum == AllReduceSum(w)
         d   == IF k = 1
                THEN [demag[w] EXCEPT !.num_atoms_magnetic = sum.n, !.reduced = k]
                ELSE [demag[w] EXCEPT !.N[ReduceOrder[k]] = sum, !.reduced = k]
     IN  IF k < Len(ReduceOrder)
         THEN /\ demag' = [demag EXCEPT ![w] = d]
              /\ coll' = [coll EXCEPT ![w] = Append(coll[w],
                            [kind |-> "allreduce_double", val |-> d.N[ReduceOrder[k + 1]]])]
              /\ trace' = [trace EXCEPT ![w] =
                            Append(trace[w], "allreduce:" \o ReduceOrder[k + 1])]
              /\ UNCHANGED <<pc, pos>>
         ELSE /\ demag' = [demag EXCEPT ![w] =
                   [d EXCEPT !.tensor = [c \in Comp |->
                                            Normalise(c, d.N[c], d.num_atoms_magnetic)],
                             !.divisors = d.divisors \cup {d.num_atoms_magnetic}]]
              /\ trace' = [trace EXCEPT ![w] =
                            Append(trace[w], "zlog:Demagnetisation tensor")]
              /\ Return(w)
              /\ UNCHANGED coll

\* ------------------------------------------------------------ the caller
\* one timestep of the simulation: the field is evaluated, the cell moments
\* change and sim::time advances
Advance(w) ==
  /\ AtCall(w, "advance")
  /\ trace' = [trace EXCEPT ![w] = trace[w] \o calculate_field(activated[w], initialised[w])]
  /\ sim_time' = [sim_time EXCEPT ![w] = sim_time[w] + 1]
  /\ moment' = [moment EXCEPT ![w] = moment[w] + 1]
  /\ Return(w)
  /\ UNCHANGED <<script, geometry, ncalls, activated, initialised, rij, internal,
                 cells_num_cells, cells_num_atoms_in_cell, cell_id_array, coll, demag,
                 estimate, vmpi, stat, samples>>

\* the caller switches dipole::activated
Toggle(w) ==
  /\ AtCall(w, "toggle")
  /\ activated' = [activated EXCEPT ![w] = ~activated[w]]
  /\ Return(w)
  /\ UNCHANGED <<script, geometry, ncalls, sim_time, initialised, rij, internal,
                 cells_num_cells, cells_num_atoms_in_cell, cell_id_array, coll,
                 demag, trace, estimate, moment, vmpi, stat, samples>>

Next ==
  \E w \in Workers :
    \/ CallInitialize(w)
    \/ AfterBuildBarrier(w)
    \/ AfterFieldBarrier(w)
    \/ AllReduce(w)
    \/ Advance(w)
    \/ Toggle(w)

Spec == Init /\ [][Next]_vars

\* the same program started from differing moments
SpecMoments == InitMoments /\ [][Next]_vars

\* ------------------------------------------------------------ vmpi::finalise
MaxTimes == 2

num_processors == NumWorkers

dipoleVars == <<script, geometry, pos, pc, ncalls, activated, sim_time, initialised,
                rij, internal, cells_num_cells, cells_num_atoms_in_cell,
                cell_id_array, coll, demag, trace, estimate, moment>>

\* the state of every rank when finalise is called: the timing switch and the
\* sizes of WaitTimeArray and ComputeTimeArray are those of the run; AllTimes
\* is the size of the receive buffer, written and read the indices of it the
\* gathers wrote and the output loops read
FinaliseStarts ==
  {[called |-> TRUE, DetailedMPITiming |-> t,
    WaitTimeArray |-> ws, ComputeTimeArray |-> cs,
    rank |-> [r \in Workers |->
                [pc |-> "call", coll |-> << >>, AllTimes |-> 0,
                 written |-> {}, read |-> {}]]] :
     t \in BOOLEAN, ws \in 0 .. MaxTimes, cs \in 0 .. MaxTimes}

InitFinalise ==
  /\ InitDipole(0)
  /\ script = <<"initialize">>
  /\ geometry = [natoms |-> [j \in CellIds |-> 0], owner |-> Owner("first"), seed |-> 0]
  /\ vmpi \in FinaliseStarts
  /\ stat = NoStatistic
  /\ samples = NoSamples

\* a barrier and the gather on the root return once every rank has issued the
\* matching call; the gather on a sending rank returns once its data is sent
FinaliseCollectiveComplete(r) ==
  LET k    == Len(vmpi.rank[r].coll)
      name == vmpi.rank[r].coll[k]
  IN  IF name = "Gather" /\ r # 0 THEN TRUE
      ELSE \A q \in Workers :
             Len(vmpi.rank[q].coll) >= k /\ vmpi.rank[q].coll[k] = name

\* MPI_Gather on the root stores recvcount values of every rank from the start
\* of the receive buffer
GatherWrites(recvcount) == 0 .. (num_processors * recvcount - 1)

\* lines 380-383 and 397-400: the indices the output loops pass to AllTimes.at
OutputReads(size) ==
  {idx + p * size : idx \in 0 .. (size - 1), p \in 0 .. (num_processors - 1)}

\* what a build can do after the accesses recorded in st: at() past the end
\* throws std::out_of_range, which nothing catches; a gather that stored past
\* the end of the vector is undefined behaviour and may or may not crash
AccessOutcomes(st) ==
  IF \E i \in st.read : i >= st.AllTimes THEN {"terminate"}
  ELSE IF \E i \in st.written : i >= st.AllTimes THEN {"terminate", "continue"}
  ELSE {"continue"}

\* lines 409-415
Finalize(st) == [st EXCEPT !.coll = Append(@, "Finalize"), !.pc = "finalized"]

\* lines 339-354
FinaliseCall(r) ==
  /\ vmpi.called
  /\ vmpi.rank[r].pc = "call"
  /\ vmpi' = [vmpi EXCEPT !.rank[r] =
                [@ EXCEPT !.coll = Append(@, "Barrier"), !.pc = "barrier"]]
  /\ UNCHANGED <<dipoleVars, stat, samples>>

\* lines 354-373, or 409-415 without detailed timing
FinaliseAfterBarrier(r) ==
  /\ vmpi.called
  /\ vmpi.rank[r].pc = "barrier"
  /\ FinaliseCollectiveComplete(r)
  /\ vmpi' = [vmpi EXCEPT !.rank[r] =
                IF vmpi.DetailedMPITiming
                THEN [@ EXCEPT !.AllTimes = IF r = 0
                                            THEN num_processors * vmpi.WaitTimeArray
                                            ELSE 0,
                               !.coll = Append(@, "Gather"),
                               !.pc = "gather_wait"]
                ELSE Finalize(@)]
  /\ UNCHANGED <<dipoleVars, stat, samples>>

\* lines 373-390
FinaliseAfterWaitGather(r) ==
  /\ vmpi.called
  /\ vmpi.rank[r].pc = "gather_wait"
  /\ FinaliseCollectiveComplete(r)
  /\ LET st  == vmpi.rank[r]
         got == IF r = 0
                THEN [st EXCEPT !.written = @ \cup GatherWrites(vmpi.WaitTimeArray),
                                !.read = @ \cup OutputReads(vmpi.WaitTimeArray)]
                ELSE st
     IN  \E outcome \in AccessOutcomes(got) :
            vmpi' = [vmpi EXCEPT !.rank[r] =
                       IF outcome = "terminate"
                       THEN [got EXCEPT !.pc = "terminated"]
                       ELSE [got EXCEPT !.coll = Append(@, "Gather"),
                                        !.pc = "gather_compute"]]
  /\ UNCHANGED <<dipoleVars, stat, samples>>

\* lines 390-415
FinaliseAfterComputeGather(r) ==
  /\ vmpi.called
  /\ vmpi.rank[r].pc = "gather_compute"
  /\ FinaliseCollectiveComplete(r)
  /\ LET st  == vmpi.rank[r]
         got == IF r = 0
                THEN [st EXCEPT !.written = @ \cup GatherWrites(vmpi.ComputeTimeArray),
                                !.read = @ \cup OutputReads(vmpi.ComputeTimeArray)]
                ELSE st
     IN  \E outcome \in AccessOutcomes(got) :
            vmpi' = [vmpi EXCEPT !.rank[r] =
                       IF outcome = "terminate"
                       THEN [got EXCEPT !.pc = "terminated"]
                       ELSE Finalize(got)]
  /\ UNCHANGED <<dipoleVars, stat, samples>>

NextFinalise ==
  \E r \in Workers :
    \/ FinaliseCall(r)
    \/ FinaliseAfterBarrier(r)
    \/ FinaliseAfterWaitGather(r)
    \/ FinaliseAfterComputeGather(r)

SpecFinalise == InitFinalise /\ [][NextFinalise]_vars

\* ------------------------------- stats::standard_deviation_statistic_t
MaxElements == 1
MaxStatOps  == 5

\* the object after its constructor: empty vectors, nothing initialised
Constructed ==
  [declared |-> TRUE, initialized |-> FALSE, exited |-> FALSE, num_elements |-> 0,
   mean |-> << >>, residual_sq |-> << >>, mean_counter |-> 0]

InitStats ==
  /\ InitDipole(0)
  /\ script = <<"initialize">>
  /\ geometry = [natoms |-> [j \in CellIds |-> 0], owner |-> Owner("first"), seed |-> 0]
  /\ vmpi = NoFinalise
  /\ stat = Constructed
  /\ samples = [ops |-> 0, last |-> "constructor", since |-> "constructor", m |-> << >>]

\* the sizes mag_stat.get_magnetization() can have
MagnetizationSizes == 0 .. (4 * MaxElements + 1)

\* the vectors passed to update: 4 * num_elements values, equal or rising
Magnetizations(num_elements) ==
  {[i \in 1 .. (4 * num_elements) |-> RInt(a + d * (i - 1))] :
     a \in {0, 2}, d \in {0, 1}}

\* std::vector::resize(n, fill): entries already present keep their values
Resize(vec, n, fill) ==
  [i \in 1 .. n |-> IF i <= Len(vec) THEN vec[i] ELSE fill]

\* lines 503-517
initialize(st, size) ==
  LET n == size \div 4
  IN  [st EXCEPT !.num_elements = n,
                 !.residual_sq = Resize(st.residual_sq, 4 * n, RInt(0)),
                 !.mean = Resize(st.mean, 4 * n, RInt(0)),
                 !.mean_counter = 0,
                 !.initialized = TRUE]

\* lines 533-537: one element of the loop body, for the incremented counter
UpdateEntry(mean, residual_sq, m, mean_counter) ==
  LET res1  == RSub(m, mean)
      mean2 == RAdd(mean, RDiv(res1, RInt(mean_counter)))
      res2  == RSub(m, mean2)
  IN  [mean |-> mean2, residual_sq |-> RAdd(residual_sq, RMul(res1, res2))]

\* lines 526-545; idx of the code is i - 1
update(st, magnetization) ==
  LET c      == st.mean_counter + 1
      e(i)   == UpdateEntry(st.mean[i], st.residual_sq[i], magnetization[i], c)
      inLoop == 1 .. (4 * st.num_elements)
  IN  [st EXCEPT !.mean_counter = c,
                 !.mean = [i \in DOMAIN st.mean |->
                             IF i \in inLoop THEN e(i).mean ELSE st.mean[i]],
                 !.residual_sq = [i \in DOMAIN st.residual_sq |->
                             IF i \in inLoop THEN e(i).residual_sq
                             ELSE st.residual_sq[i]]]

\* lines 550-560
reset_averages(st) ==
  [st EXCEPT !.residual_sq = [i \in DOMAIN st.residual_sq |-> RInt(0)],
             !.mean = [i \in DOMAIN st.mean |-> RInt(0)],
             !.mean_counter = 0]

StatCallable == stat.declared /\ ~stat.exited /\ samples.ops < MaxStatOps

\* lines 492-519: an uninitialised magnetization statistic ends the program
StatInitialize ==
  /\ StatCallable
  /\ \E mag_initialized \in BOOLEAN : \E size \in MagnetizationSizes :
       IF ~mag_initialized
       THEN /\ stat' = [stat EXCEPT !.exited = TRUE]
            /\ samples' = [samples EXCEPT !.ops = @ + 1, !.last = "vexit"]
       ELSE /\ stat' = initialize(stat, size)
            /\ samples' = [ops |-> samples.ops + 1, last |-> "initialize",
                            since |-> "initialize", m |-> << >>]
  /\ UNCHANGED <<dipoleVars, vmpi>>

StatUpdate ==
  /\ StatCallable
  /\ stat.initialized
  /\ \E magnetization \in Magnetizations(stat.num_elements) :
       /\ stat' = update(stat, magnetization)
       /\ samples' = [samples EXCEPT !.ops = @ + 1, !.last = "update",
                                     !.m = Append(@, magnetization)]
  /\ UNCHANGED <<dipoleVars, vmpi>>

StatReset ==
  /\ StatCallable
  /\ stat' = reset_averages(stat)
  /\ samples' = [ops |-> samples.ops + 1, last |-> "reset_averages",
                  since |-> "reset_averages", m |-> << >>]
  /\ UNCHANGED <<dipoleVars, vmpi>>

NextStats == StatInitialize \/ StatUpdate \/ StatReset

SpecStats == InitStats /\ [][NextStats]_vars

\* ------------------------------------------------------------- properties
Count(seq, e) == Cardinality({k \in DOMAIN seq : seq[k] = e})

Occurs(seq, e) == \E k \in DOMAIN seq : seq[k] = e

\* the step is worker w entering dipole::initialize
CallStep(w) == AtCall(w, "initialize") /\ ncalls'[w] = ncalls[w] + 1

\* worker w's module state, other than the log, is left as it was
ModuleStateKept(w) ==
  /\ rij'[w] = rij[w]
  /\ internal'[w] = internal[w]
  /\ cells_num_cells'[w] = cells_num_cells[w]
  /\ cells_num_atoms_in_cell'[w] = cells_num_atoms_in_cell[w]
  /\ initialised'[w] = initialised[w]
  /\ coll'[w] = coll[w]
  /\ demag'[w] = demag[w]
  /\ pc'[w] = "idle"

\* C1: a call of initialize on an initialised module changes neither the
\* tensor, nor the stored geometry, nor cells::num_cells and
\* cells::num_atoms_in_cell, nor the flag; it enters no collective, evaluates no
\* field, and writes nothing but the warning (written when the module is enabled)
C1_Idempotent ==
  [][\A w \in Workers :
       (CallStep(w) /\ initialised[w]) =>
          /\ ModuleStateKept(w)
          /\ trace'[w] = IF activated[w]
                         THEN Append(trace[w], "zlog:Warning")
                         ELSE trace[w]]_vars

C1_Witness ==
  \E w \in Workers :
    /\ initialised[w]
    /\ ncalls[w] >= 2
    /\ Occurs(trace[w], "zlog:Warning")
    /\ internal[w].cells_num_atoms_in_cell = geometry.natoms

\* C2: a call of initialize with dipole::activated false changes nothing: no
\* allocation, no copy, no flag change, no collective, no field evaluation and
\* no log line
C2_DisabledNoOp ==
  [][\A w \in Workers :
       (CallStep(w) /\ ~activated[w]) =>
          /\ ModuleStateKept(w)
          /\ trace'[w] = trace[w]]_vars

C2_Witness ==
  \E w \in Workers :
    /\ ~activated[w]
    /\ ncalls[w] >= 1
    /\ ~initialised[w]
    /\ rij[w] = Unallocated
    /\ trace[w] = << >>

\* C3: on every worker the allocation and the tensor build each run at most
\* once, whatever the caller does
C3_BuildAtMostOnce ==
  \A w \in Workers :
    /\ Count(trace[w], "allocate_memory") <= 1
    /\ Count(trace[w], "initialize_tensor_solver") <= 1

C3_Witness ==
  \E w \in Workers :
    /\ ncalls[w] = MaxScript
    /\ activated[w]
    /\ Count(trace[w], "allocate_memory") = 1
    /\ Count(trace[w], "initialize_tensor_solver") = 1

\* every worker has issued its first collective, the barrier after the build
BuildBarrierComplete == \A v \in Workers : Len(coll[v]) >= 1

\* C4: the flag starts false, is only ever switched from false to true, the
\* switch happens when the barrier after the build returns, and whenever the
\* flag is true the tensor is built
C4_FlagLifecycle ==
  /\ \A w \in Workers : ~initialised[w]
  /\ [](\A w \in Workers : initialised[w] =>
          /\ rij[w].allocated
          /\ Count(trace[w], "initialize_tensor_solver") = 1
          /\ BuildBarrierComplete)
  /\ [][\A w \in Workers :
          /\ initialised[w] => initialised'[w]
          /\ (~initialised[w] /\ initialised'[w]) =>
                /\ pc[w] = "barrier1"
                /\ Occurs(trace[w], "initialize_tensor_solver")
                /\ BuildBarrierComplete]_vars

C4_Witness ==
  \E w \in Workers :
    /\ initialised[w]
    /\ pos[w] > Len(script)
    /\ Count(trace[w], "initialised=true") = 1
    /\ ~activated[w]

\* C5: no worker sets its flag or evaluates the field before every worker has
\* returned from its tensor build
C5_PostBuildBarrier ==
  \A w \in Workers :
    (initialised[w] \/ Occurs(trace[w], "calculate_field")) =>
       \A v \in Workers : Occurs(trace[v], "initialize_tensor_solver")

C5_Witness ==
  \E w, v \in Workers :
    /\ w # v
    /\ Occurs(trace[w], "calculate_field")
    /\ pc[v] = "barrier1"

Finished(w) == pc[w] = "idle" /\ pos[w] > Len(script)

IsPrefix(s, t) == Len(s) <= Len(t) /\ \A k \in 1 .. Len(s) : s[k] = t[k]

CollectiveEventNames ==
  {"barrier"} \cup {"allreduce:" \o ReduceOrder[k] : k \in 1 .. Len(ReduceOrder)}

IsCollectiveEvent(e) == e \in CollectiveEventNames

\* the collectives worker w has entered, in program order
CollectiveEvents(w) == SelectSeq(trace[w], IsCollectiveEvent)

CollectiveOrder ==
  <<"barrier", "barrier", "allreduce:nmag", "allreduce:xx", "allreduce:xy",
    "allreduce:xz", "allreduce:yy", "allreduce:yz", "allreduce:zz">>

CollectivesInOrder ==
  \A w \in Workers :
    /\ IsPrefix(CollectiveEvents(w), CollectiveOrder)
    /\ Len(coll[w]) = Len(CollectiveEvents(w))
    /\ \A v \in Workers :
         (Finished(w) /\ Finished(v)) => CollectiveEvents(w) = CollectiveEvents(v)

AllFinished == \A w \in Workers : Finished(w)

\* worker w can take its next step: it is between two operations of the caller
\* program, or the collective it waits in can return
CanStep(w) ==
  \/ pc[w] = "idle" /\ pos[w] <= Len(script)
  \/ pc[w] # "idle" /\ CollectiveComplete(w)

\* C6: the collectives of every worker follow one fixed order (barrier,
\* barrier, all-reduce of the atom count, then of Nxx, Nxy, Nxz, Nyy, Nyz,
\* Nzz), workers that have finished have issued the same collectives, and the
\* workers never come to a halt while one of them is still inside initialize
\* or has operations left (every step advances a worker through the finite
\* caller program, so every worker returns from initialize)
C6_SymmetricCollectives ==
  /\ CollectivesInOrder
  /\ (\A w \in Workers : ~CanStep(w)) => AllFinished

C6_Witness ==
  /\ \A w \in Workers : Finished(w) /\ CollectiveEvents(w) = CollectiveOrder
  /\ Len(script) = MaxScript

DemagReport == "zlog:Demagnetisation tensor"

\* C7 as stated: a worker that has completed an initialize which set the flag
\* has computed and reported the demagnetizing tensor exactly once
C7_ExactlyOnce ==
  \A w \in Workers :
    (initialised[w] /\ pc[w] = "idle") =>
       /\ Count(trace[w], "demag_sum") = 1
       /\ Count(trace[w], DemagReport) = 1

\* C7 amended: the demagnetizing computation and its report run at most once
\* per worker; the initialize that sets the flag runs them once when sim::time
\* is 0 at that call and not at all otherwise; no later call or timestep runs
\* them again
C7_AtMostOnce ==
  /\ [](\A w \in Workers :
          /\ Count(trace[w], "demag_sum") <= 1
          /\ Count(trace[w], DemagReport) <= Count(trace[w], "demag_sum")
          /\ pc[w] = "idle" =>
               Count(trace[w], DemagReport) = Count(trace[w], "demag_sum"))
  /\ [][\A w \in Workers :
          /\ (pc[w] = "barrier2" /\ pc'[w] # "barrier2") =>
               Count(trace'[w], "demag_sum") = (IF sim_time[w] = 0 THEN 1 ELSE 0)
          /\ pc[w] # "barrier2" =>
               Count(trace'[w], "demag_sum") = Count(trace[w], "demag_sum")]_vars

C7_Witness ==
  \E w \in Workers :
    /\ Finished(w)
    /\ ncalls[w] >= 2
    /\ sim_time[w] > 0
    /\ Count(trace[w], DemagReport) = 1

\* C8: a pair (local cell lc, cell j) is added to the six totals only if the
\* cell of lc and cell j both hold at least one atom
C8_ZeroPopulationExcluded ==
  \A w \in Workers :
    demag[w].run =>
      \A p \in demag[w].pairs :
        /\ internal[w].cells_num_atoms_in_cell[cell_id_array[w][p[1] + 1]] > 0
        /\ internal[w].cells_num_atoms_in_cell[p[2]] > 0

C8_Witness ==
  \E w \in Workers :
    /\ demag[w].run
    /\ demag[w].pairs # {}
    /\ \E lc \in 0 .. (internal[w].cells_num_local_cells - 1) :
         /\ internal[w].cells_num_atoms_in_cell[cell_id_array[w][lc + 1]] = 0
         /\ \E c \in Comp : \E j \in CellIds : TensorTerm(w, c, lc, j) # 0
    /\ \E j \in CellIds :
         /\ internal[w].cells_num_atoms_in_cell[j] = 0
         /\ \E c \in Comp :
              \E lc \in 0 .. (internal[w].cells_num_local_cells - 1) :
                 TensorTerm(w, c, lc, j) # 0

\* C9 as stated: no division of the diagnostic has a zero divisor
C9_NoZeroDivisor ==
  \A w \in Workers : demag[w].run => 0 \notin demag[w].divisors

FirstIndex(seq, e) ==
  IF Occurs(seq, e)
  THEN CHOOSE k \in DOMAIN seq :
         seq[k] = e /\ \A m \in DOMAIN seq : seq[m] = e => k <= m
  ELSE 0

\* C10 as stated: when the allocation is attempted the sizing estimate has
\* already been written
C10_EstimateBeforeAllocation ==
  \A w \in Workers :
    Occurs(trace[w], "allocate_memory") =>
       /\ Occurs(trace[w], "zlog:requires_MB")
       /\ FirstIndex(trace[w], "zlog:requires_MB")
            < FirstIndex(trace[w], "allocate_memory")

\* the number of scalars the twelve arrays of a worker hold
StoredScalars(w) ==
  Cardinality({t \in Kinds \X Comp \X (0 .. (NumCells - 1)) \X CellIds :
                 /\ t[3] \in DOMAIN rij[w][t[1]][t[2]]
                 /\ t[4] \in DOMAIN rij[w][t[1]][t[2]][t[3]]})

\* C11 as stated: the memory figure written to the log is the size of the
\* storage, num_local_cells * num_cells * 12 values of 8 bytes, in MB
C11_EstimateMatchesStorage ==
  \A w \in Workers :
    (estimate[w].written /\ rij[w].allocated) =>
       /\ StoredScalars(w)
            = internal[w].cells_num_local_cells * internal[w].cells_num_cells * 12
       /\ estimate[w].MB = RDiv(RInt(StoredScalars(w) * 8), RInt(1000000))

\* the steps of the first successful initialize, in the order of the code
StepOrder ==
  <<"allocate_memory", "initialize_tensor_solver", "barrier", "initialised=true",
    "calculate_field", "barrier", "demag_sum">>

StepEvents(w) ==
  SelectSeq(trace[w], LAMBDA e : \E k \in DOMAIN StepOrder : StepOrder[k] = e)

\* C12: the first successful initialize allocates, builds, waits, sets the
\* flag, evaluates the field once, waits again and only then (at sim::time 0)
\* runs the diagnostic, each step once; nothing of it happens before
C12_StepOrder ==
  \A w \in Workers :
    /\ (pc[w] = "idle" /\ ~initialised[w]) => StepEvents(w) = << >>
    /\ pc[w] = "barrier1" =>
         StepEvents(w) = SubSeq(StepOrder, 1, 3) /\ ~initialised[w]
    /\ pc[w] = "barrier2" =>
         StepEvents(w) = SubSeq(StepOrder, 1, 6) /\ initialised[w]
    /\ pc[w] = "reduce" =>
         StepEvents(w) = StepOrder /\ initialised[w] /\ sim_time[w] = 0
    /\ (pc[w] = "idle" /\ initialised[w]) =>
         /\ IsPrefix(SubSeq(StepOrder, 1, 6), StepEvents(w))
         /\ Count(trace[w], "allocate_memory") = 1
         /\ Count(trace[w], "initialize_tensor_solver") = 1
         /\ Count(trace[w], "initialised=true") = 1
         /\ Count(trace[w], "barrier") = 2
         /\ Count(trace[w], "demag_sum") <= 1
         /\ Occurs(trace[w], "demag_sum") => IsPrefix(StepOrder, StepEvents(w))

C12_Witness ==
  \E w \in Workers :
    /\ pc[w] = "idle" /\ initialised[w]
    /\ StepEvents(w) = StepOrder \o <<"calculate_field">>

\* C13: no worker starts the accumulation or a reduction of the diagnostic
\* before every worker has completed its first field evaluation
C13_PostEvaluationBarrier ==
  \A w \in Workers :
    (Occurs(trace[w], "demag_sum") \/ pc[w] = "reduce" \/ demag[w].run) =>
       \A v \in Workers :
          /\ Occurs(trace[v], "calculate_field")
          /\ pc[v] # "barrier1"

C13_Witness ==
  \E w \in Workers : \E v \in Workers :
    /\ w # v
    /\ pc[w] = "reduce" /\ Occurs(trace[w], "allreduce:nmag")
    /\ pc[v] = "barrier2"

\* the log and collective events only the diagnostic produces
DiagnosticEvents ==
  {"demag_sum", DemagReport}
    \cup {"allreduce:" \o ReduceOrder[k] : k \in 1 .. Len(ReduceOrder)}

\* C14: the diagnostic (atom count, accumulation, seven reductions, report) is
\* performed when and only when sim::time is 0 at the first successful
\* initialize; otherwise none of it is executed, and both barriers are
\* executed either way
C14_DiagnosticGating ==
  /\ [](\A w \in Workers :
          /\ (pc[w] = "reduce" \/ demag[w].run) => sim_time[w] = 0 \/ pc[w] = "idle"
          /\ (pc[w] = "idle" /\ initialised[w]) =>
               /\ Count(trace[w], "barrier") = 2
               /\ \/ /\ \A e \in DiagnosticEvents : Count(trace[w], e) = 1
                     /\ demag[w].run /\ Len(coll[w]) = 2 + Len(ReduceOrder)
                  \/ /\ \A e \in DiagnosticEvents : Count(trace[w], e) = 0
                     /\ ~demag[w].run /\ Len(coll[w]) = 2)
  /\ [][\A w \in Workers :
          (pc[w] = "barrier2" /\ pc'[w] # "barrier2") =>
             IF sim_time[w] = 0
             THEN /\ pc'[w] = "reduce" /\ demag'[w].run
                  /\ Count(trace'[w], "demag_sum") = 1
                  /\ Count(trace'[w], "allreduce:nmag") = 1
             ELSE /\ pc'[w] = "idle" /\ demag'[w] = NoDemag
                  /\ coll'[w] = coll[w] /\ Len(coll[w]) = 2
                  /\ \A e \in DiagnosticEvents : Count(trace'[w], e) = 0]_vars

C14_Witness ==
  \E w \in Workers : \E v \in Workers :
    /\ pc[w] = "idle" /\ initialised[w] /\ sim_time[w] > 0
    /\ ~demag[w].run /\ Len(coll[w]) = 2 /\ Count(trace[w], "barrier") = 2
    /\ pc[v] = "idle" /\ initialised[v] /\ Len(coll[v]) = 2

\* the sum of f over the finite set S
RECURSIVE RSum(_, _)
RSum(S, f) ==
  IF S = {} THEN RInt(0)
  ELSE LET x == CHOOSE y \in S : TRUE
       IN  RAdd(f[x], RSum(S \ {x}, f))

\* the pairs (local cell index, cell) in which both cells hold atoms
PopulatedPairs(w) ==
  {p \in (0 .. (internal[w].cells_num_local_cells - 1))
           \X (0 .. (internal[w].cells_num_cells - 1)) :
     /\ internal[w].cells_num_atoms_in_cell[cell_id_array[w][p[1] + 1]] > 0
     /\ internal[w].cells_num_atoms_in_cell[p[2]] > 0}

\* (volume[j] / n_j) * n_j * n_i * (intra_c[lc][j] + inter_c[lc][j])
PairTerm(w, c, p) ==
  LET n  == internal[w].cells_num_atoms_in_cell
      ni == n[cell_id_array[w][p[1] + 1]]
  IN  RMul(RNorm(internal[w].cells_volume_array[p[2]] * n[p[2]] * ni, n[p[2]]),
           RInt(rij[w].intra[c][p[1]][p[2]] + rij[w].inter[c][p[1]][p[2]]))

LocalTotal(w, c) ==
  RSum(PopulatedPairs(w), [p \in PopulatedPairs(w) |-> PairTerm(w, c, p)])

LocalAtoms(w) ==
  LET L == 0 .. (internal[w].cells_num_local_cells - 1)
  IN  RSum(L, [lc \in L |->
                 RInt(internal[w].cells_num_atoms_in_cell[cell_id_array[w][lc + 1]])])

\* what worker w passed into the k-th reduction of the diagnostic
Contribution(w, k) == coll[w][2 + k].val

\* C16: before the reductions each of the six totals of a worker is the sum
\* of the pair terms over the populated pairs, every pair taken once, and the
\* local atom count is the sum of the atom counts of the local cells
C16_LocalAccumulation ==
  \A w \in Workers :
    demag[w].run =>
       /\ demag[w].pairs = PopulatedPairs(w)
       /\ Contribution(w, 1) = LocalAtoms(w)
       /\ demag[w].reduced = 0 => RInt(demag[w].num_atoms_magnetic) = LocalAtoms(w)
       /\ \A k \in 2 .. Len(ReduceOrder) :
            /\ demag[w].reduced < k => demag[w].N[ReduceOrder[k]] = LocalTotal(w, ReduceOrder[k])
            /\ Len(coll[w]) >= 2 + k => Contribution(w, k) = LocalTotal(w, ReduceOrder[k])

C16_Witness ==
  \E w \in Workers :
    /\ demag[w].run /\ demag[w].reduced = 0
    /\ demag[w].pairs # {}
    /\ \E c \in Comp : demag[w].N[c].n # 0
    /\ \E j \in CellIds : internal[w].cells_num_atoms_in_cell[j] = 0
    /\ \E p \in demag[w].pairs :
         internal[w].cells_num_atoms_in_cell[cell_id_array[w][p[1] + 1]] > 1

\* the k-th of the seven values as worker w holds it
Held(w, k) ==
  IF k = 1 THEN RInt(demag[w].num_atoms_magnetic) ELSE demag[w].N[ReduceOrder[k]]

\* C17: after its k-th reduction a worker holds the sum of the contributions
\* of all workers, so all workers hold the same seven values and report the
\* same tensor
C17_GlobalReduction ==
  \A w \in Workers :
    demag[w].run =>
       /\ \A k \in 1 .. demag[w].reduced :
            /\ Held(w, k) = RSum(Workers, [v \in Workers |-> Contribution(v, k)])
            /\ \A v \in Workers :
                 (demag[v].run /\ demag[v].reduced >= k) => Held(v, k) = Held(w, k)
       /\ \A v \in Workers :
            (demag[v].run /\ demag[v].reduced = Len(ReduceOrder)
               /\ demag[w].reduced = Len(ReduceOrder)) =>
                 demag[v].tensor = demag[w].tensor

C17_Witness ==
  \E w \in Workers : \E v \in Workers :
    /\ w # v
    /\ demag[w].run /\ demag[w].reduced = Len(ReduceOrder)
    /\ demag[v].run /\ demag[v].reduced = Len(ReduceOrder)
    /\ \E k \in 2 .. Len(ReduceOrder) :
         /\ Contribution(w, k).n # 0 /\ Contribution(v, k).n # 0
         /\ Held(w, k) # Contribution(w, k)

\* C18: with M > 0 magnetic atoms the reported value is (S/M - 4 pi/3)/(-4 pi)
\* = 1/3 - (S/(4M))/pi for xx, yy, zz and (S/M)/(-4 pi) = -(S/(4M))/pi for
\* xy, xz, yz, S being the reduced total of the component
C18_Normalisation ==
  \A w \in Workers :
    (demag[w].run /\ demag[w].reduced = Len(ReduceOrder)
       /\ demag[w].num_atoms_magnetic > 0) =>
         \A c \in Comp :
            /\ demag[w].tensor[c].m1
                 = RDiv(demag[w].N[c], RInt(0 - 4 * demag[w].num_atoms_magnetic))
            /\ demag[w].tensor[c].z
                 = (IF c \in {"xx", "yy", "zz"} THEN RNorm(1, 3) ELSE RInt(0))
            /\ demag[w].tensor[c].p1 = RInt(0)

C18_Witness ==
  \E w \in Workers :
    /\ demag[w].run /\ demag[w].reduced = Len(ReduceOrder)
    /\ demag[w].num_atoms_magnetic > 1
    /\ \E c \in {"xx", "yy", "zz"} : demag[w].N[c].n # 0
    /\ \E c \in {"xy", "xz", "yz"} : demag[w].N[c].n # 0

\* the geometry of the call that initialised worker w
InitGeometry(w) ==
  IF internal[w].cells_num_atoms_in_cell = geometry.natoms
  THEN geometry ELSE AltGeometry(geometry)

\* the six reported values as a function of the geometry alone: atom counts,
\* volumes and pair tensors of all cells, no moment
GeometryTensor(g) ==
  LET P    == {j \in CellIds : g.natoms[j] > 0}
      vol  == CallArgs(g, 0, 0).cells_volume_array
      M    == RSum(CellIds, [j \in CellIds |-> RInt(g.natoms[j])])
      S(c) == RSum(P \X P, [p \in P \X P |->
                 RInt(vol[p[2]] * g.natoms[p[1]]
                        * (TensorValue("intra", c, p[1], p[2], g.seed)
                             + TensorValue("inter", c, p[1], p[2], g.seed)))])
  IN  [c \in Comp |->
         [m1 |-> RDiv(S(c), RMul(RInt(0 - 4), M)),
          z  |-> IF c \in {"xx", "yy", "zz"} THEN RNorm(1, 3) ELSE RInt(0),
          p1 |-> RInt(0)]]

\* C15: the six reported values are determined by the geometry, whatever the
\* moments of the run are, and a later field evaluation, which changes the
\* moments, leaves the values computed by the diagnostic as they are
C15_GeometryOnly ==
  /\ [](LET first == GeometryTensor(geometry)
             later == GeometryTensor(AltGeometry(geometry))
         IN  \A w \in Workers :
               (demag[w].run /\ demag[w].reduced = Len(ReduceOrder)) =>
                  demag[w].tensor
                    = (IF InitGeometry(w) = geometry THEN first ELSE later))
  /\ [][\A w \in Workers :
          /\ (demag[w].run /\ demag[w].reduced = Len(ReduceOrder)) =>
               demag'[w] = demag[w]
          /\ (AtCall(w, "advance") /\ pos'[w] # pos[w]) =>
               moment'[w] # moment[w] /\ demag'[w] = demag[w]]_vars

C15_Witness ==
  \E w \in Workers :
    /\ demag[w].run /\ demag[w].reduced = Len(ReduceOrder)
    /\ internal[w].cells_pos_and_mom_array[0].mom = 1
    /\ \E c \in Comp : demag[w].tensor[c].m1.n # 0
    /\ sim_time[w] > 0 /\ moment[w] # 1
    /\ Count(trace[w], "calculate_field") = 2

\* the collectives of finalise in program order
FinaliseCollectives ==
  IF vmpi.DetailedMPITiming
  THEN <<"Barrier", "Gather", "Gather", "Finalize">>
  ELSE <<"Barrier", "Finalize">>

FinaliseCanStep(r) ==
  /\ vmpi.rank[r].pc \notin {"finalized", "terminated"}
  /\ vmpi.rank[r].pc = "call" \/ FinaliseCollectiveComplete(r)

\* C19 as stated: every rank issues the same collectives in the same order,
\* Barrier, the two gathers when detailed timing is on, Finalize, and every
\* rank reaches Finalize
C19_FinaliseCollectives ==
  vmpi.called =>
    /\ \A r \in Workers : IsPrefix(vmpi.rank[r].coll, FinaliseCollectives)
    /\ (\A r \in Workers : ~FinaliseCanStep(r)) =>
         \A r \in Workers : vmpi.rank[r].coll = FinaliseCollectives

\* C20 as stated: on rank 0 every element the two gathers write and every
\* element the output loops read lies inside AllTimes
C20_GatherWithinBuffer ==
  vmpi.called =>
    \A i \in vmpi.rank[0].written \cup vmpi.rank[0].read : i < vmpi.rank[0].AllTimes

\* the values index i received in the updates since the last initialize or
\* reset_averages
SampleSum(i) ==
  RSum(DOMAIN samples.m, [j \in DOMAIN samples.m |-> samples.m[j][i]])

SampleMean(i) == RDiv(SampleSum(i), RInt(Len(samples.m)))

SquaredDeviations(i) ==
  RSum(DOMAIN samples.m,
       [j \in DOMAIN samples.m |->
          RMul(RSub(samples.m[j][i], SampleMean(i)),
               RSub(samples.m[j][i], SampleMean(i)))])

\* C21 as stated: k >= 1 updates after initialize or reset_averages leave
\* mean_counter = k, in every entry the arithmetic mean and the sum of the
\* squared deviations of the k values, and update changes neither the sizes,
\* num_elements nor the initialized flag
C21_RunningStatistic ==
  /\ [](stat.declared /\ stat.initialized /\ Len(samples.m) >= 1 =>
          /\ stat.mean_counter = Len(samples.m)
          /\ Len(stat.mean) = 4 * stat.num_elements
          /\ Len(stat.residual_sq) = 4 * stat.num_elements
          /\ \A i \in 1 .. (4 * stat.num_elements) :
               /\ stat.mean[i] = SampleMean(i)
               /\ stat.residual_sq[i] = SquaredDeviations(i))
  /\ [][(stat.declared /\ samples'.last = "update"
           /\ samples'.ops = samples.ops + 1) =>
          /\ stat'.num_elements = stat.num_elements
          /\ stat'.initialized = stat.initialized
          /\ Len(stat'.mean) = Len(stat.mean)
          /\ Len(stat'.residual_sq) = Len(stat.residual_sq)]_vars

\* the statistic after the updates vecs[k], vecs[k+1], ... applied to st
RECURSIVE Replay(_, _, _)
Replay(st, vecs, k) ==
  IF k > Len(vecs) THEN st ELSE Replay(update(st, vecs[k]), vecs, k + 1)

\* C22 as stated: reset_averages zeroes mean, residual_sq and mean_counter,
\* keeps the sizes, num_elements and the initialized flag, is idempotent, and
\* updates after initialize give what the same updates give after a reset
C22_ResetRestores ==
  /\ [][(stat.declared /\ samples'.last = "reset_averages"
           /\ samples'.ops = samples.ops + 1) =>
          /\ \A i \in DOMAIN stat'.mean : stat'.mean[i] = RInt(0)
          /\ \A i \in DOMAIN stat'.residual_sq : stat'.residual_sq[i] = RInt(0)
          /\ stat'.mean_counter = 0
          /\ Len(stat'.mean) = Len(stat.mean)
          /\ Len(stat'.residual_sq) = Len(stat.residual_sq)
          /\ stat'.num_elements = stat.num_elements
          /\ stat'.initialized = stat.initialized
          /\ reset_averages(stat') = stat']_vars
  /\ [](stat.declared /\ stat.initialized
          /\ samples.since \in {"initialize", "reset_averages"} =>
             stat = Replay(reset_averages(stat), samples.m, 1))

====
